---- MODULE Spec2Model ----
(***************************************************************************)
(* Model of cli/helm/chart.go: readChartFiles and readFile reading a Helm   *)
(* chart out of an embedded file tree.                                      *)
(*                                                                          *)
(* A path is the sequence of its elements ("charts/demo" is                 *)
(* <<"charts", "demo">>); the path "." is the empty sequence.  The embedded *)
(* tree `chart` is a function from the paths it holds to nodes.  ReadFile   *)
(* and ReadDir answer as embed.FS does, with fs.PathError values.  Under   *)
(* Spec the tree is an embed.FS: every regular file can be read.  Under     *)
(* SpecFault the tree may also hold nodes that are listed as regular files  *)
(* but whose read fails, so that the error return of a template read is     *)
(* exercised.                                                               *)
(***************************************************************************)
EXTENDS Naturals, Sequences, FiniteSets

VARIABLES
    chart,         \* the embedded tree: path -> node
    chartDirName,  \* argument of readChartFiles
    pc,            \* position in readChartFiles
    i,             \* index into the required file names (loop of line 69)
    dirs,          \* result of chart.ReadDir (line 78)
    j,             \* index into dirs (loop of line 83)
    chartFiles,    \* the slice being built
    retFiles,      \* returned slice (<<>> is nil)
    retErr,        \* returned error
    calls,         \* the calls made on the tree, in order
    Separator,     \* os.PathSeparator of the platform the program is built for
    results,       \* the results of the calls that have returned before this one
    load,          \* LoadChart: its call of loader.LoadFiles and what it returns
    other,         \* the locals of a second call running in parallel
    fetch,         \* FetchChartValues: its position, its calls and what it returns
    test           \* TestControllerNamespaces: the case, the phase, the control plane

vars == <<chart, chartDirName, pc, i, dirs, j, chartFiles, retFiles, retErr, calls,
          Separator, results, load, other, fetch, test>>

\* what a step of readChartFiles leaves alone besides its own locals
others == <<Separator, results, load, other, fetch, test>>

----------------------------------------------------------------------------
(* Constants of chart.go *)

chartFileName == "Chart.yaml"
valuesFileName == "values.yaml"
templatesDirName == "templates"

\* values.yaml before Chart.yaml
requiredFiles_Swapped == <<valuesFileName, chartFileName>>

\* the slice literal ranged over at line 69
requiredFiles == <<chartFileName, valuesFileName>>

----------------------------------------------------------------------------
(* Bounds and input sets *)

\* largest number of entries directly in the templates directory
MaxEntries == 2

\* largest number of calls made one after the other on the same tree
MaxCalls == 2

ChartDirNames ==
    { <<"consul">>, <<"charts", "demo">>, <<"a", "b", "c">>, <<"templates">>, <<".">> }

TemplateNames == {"svc.yaml", "dep.yaml", "sub"}

Contents == {"kind: Service", "kind: Deployment"}

chartData == "name: demo"
valuesData == "replicas: 1"
nestedName == "nested.yaml"
nestedData == "kind: Nested"

----------------------------------------------------------------------------
(* Errors: the nil error and fs.PathError{Op, Path, Err} *)

nil == [Op |-> "", Path |-> <<>>, Err |-> "nil"]

PathError(op, path, err) == [Op |-> op, Path |-> path, Err |-> err]

ErrNotExist == "file does not exist"
ErrIsDir == "is a directory"
ErrNotDir == "not a directory"
ErrIO == "input/output error"
ErrRel == "Rel: can't make target relative to base"

----------------------------------------------------------------------------
(* path/filepath *)

Last(s) == s[Len(s)]
Front(s) == SubSeq(s, 1, Len(s) - 1)

RECURSIVE CleanAcc(_, _)
CleanAcc(p, out) ==
    IF p = <<>> THEN out
    ELSE LET seg == Head(p) IN
         IF seg \in {"", "."} THEN CleanAcc(Tail(p), out)
         ELSE IF seg = ".."
              THEN IF out # <<>> /\ Last(out) # ".."
                   THEN CleanAcc(Tail(p), Front(out))
                   ELSE CleanAcc(Tail(p), Append(out, ".."))
              ELSE CleanAcc(Tail(p), Append(out, seg))

\* filepath.Clean on a relative path
Clean(p) == CleanAcc(p, <<>>)

RECURSIVE Concat(_)
Concat(elems) == IF elems = <<>> THEN <<>> ELSE Head(elems) \o Concat(Tail(elems))

\* filepath.Join: the elements joined by the separator, then cleaned
Join(elems) == Clean(Concat(elems))

RECURSIVE CommonLen(_, _)
CommonLen(a, b) ==
    IF a = <<>> \/ b = <<>> \/ Head(a) # Head(b) THEN 0
    ELSE 1 + CommonLen(Tail(a), Tail(b))

\* filepath.Rel on relative paths: [path, err]
Rel(basepath, targpath) ==
    LET base == Clean(basepath)
        targ == Clean(targpath)
        n    == CommonLen(base, targ)
        brest == SubSeq(base, n + 1, Len(base))
        trest == SubSeq(targ, n + 1, Len(targ))
    IN  IF targ = base THEN [path |-> <<".">>, err |-> nil]
        ELSE IF brest # <<>> /\ Head(brest) = ".."
             THEN [path |-> <<>>, err |-> PathError("Rel", targ, ErrRel)]
             ELSE [path |-> [k \in 1..Len(brest) |-> ".."] \o trest, err |-> nil]

----------------------------------------------------------------------------
(* embed.FS as called by chart.go *)

Node(kind, data, entries) == [kind |-> kind, data |-> data, entries |-> entries]

\* io/fs.ValidPath, applied by the tree to every name it is asked for
ValidPath(name) == \A k \in 1..Len(name) : name[k] \notin {"", ".", ".."}

\* a name built by path/filepath is spelled with Separator between its
\* elements; the tree splits names at "/" only, so it finds the elements of
\* a name of several elements only when Separator is "/"
SlashSeparated(name) == Separator = "/" \/ Len(name) <= 1

\* chart.ReadFile(name): [bytes, err]
ReadFile(fs, name) ==
    IF ~ValidPath(name) \/ ~SlashSeparated(name) \/ name \notin DOMAIN fs
    THEN [bytes |-> "", err |-> PathError("open", name, ErrNotExist)]
    ELSE IF fs[name].kind = "dir"
    THEN [bytes |-> "", err |-> PathError("read", name, ErrIsDir)]
    ELSE IF fs[name].kind = "broken"
    THEN [bytes |-> "", err |-> PathError("read", name, ErrIO)]
    ELSE [bytes |-> fs[name].data, err |-> nil]

\* the fs.DirEntry values of a directory, in the order the tree lists them
DirEntries(fs, name) ==
    [k \in 1..Len(fs[name].entries) |->
        LET n == fs[name].entries[k] IN
        [Name |-> n, IsDir |-> fs[name \o <<n>>].kind = "dir"]]

\* chart.ReadDir(name): [entries, err]
ReadDir(fs, name) ==
    IF ~ValidPath(name) \/ ~SlashSeparated(name) \/ name \notin DOMAIN fs
    THEN [entries |-> <<>>, err |-> PathError("open", name, ErrNotExist)]
    ELSE IF fs[name].kind # "dir"
    THEN [entries |-> <<>>, err |-> PathError("read", name, ErrNotDir)]
    ELSE [entries |-> DirEntries(fs, name), err |-> nil]

----------------------------------------------------------------------------
(* chart.go *)

BufferedFile(name, data) == [Name |-> name, Data |-> data]

\* readFile without the call of filepath.Rel: Name keeps the path prefix
readFile_NoStrip(fs, filename, pathPrefix) ==
    LET rd == ReadFile(fs, filename)
    IN  IF rd.err # nil THEN [file |-> BufferedFile(<<>>, ""), err |-> rd.err]
        ELSE [file |-> BufferedFile(filename, rd.bytes), err |-> nil]

\* readFile that leaves Data unset
readFile_NoData(fs, filename, pathPrefix) ==
    LET rd  == ReadFile(fs, filename)
        rel == Rel(pathPrefix, filename)
    IN  IF rd.err # nil THEN [file |-> BufferedFile(<<>>, ""), err |-> rd.err]
        ELSE IF rel.err # nil THEN [file |-> BufferedFile(<<>>, ""), err |-> rel.err]
        ELSE [file |-> BufferedFile(rel.path, ""), err |-> nil]

\* readFile that returns the bare cause of a failed read, without its path
readFile_Unwrapped(fs, filename, pathPrefix) ==
    LET rd  == ReadFile(fs, filename)
        rel == Rel(pathPrefix, filename)
    IN  IF rd.err # nil
        THEN [file |-> BufferedFile(<<>>, ""), err |-> PathError("", <<>>, rd.err.Err)]
        ELSE IF rel.err # nil THEN [file |-> BufferedFile(<<>>, ""), err |-> rel.err]
        ELSE [file |-> BufferedFile(rel.path, rd.bytes), err |-> nil]

\* readFile (lines 101-117): [file, err]
readFile(fs, filename, pathPrefix) ==
    LET rd  == ReadFile(fs, filename)
        rel == Rel(pathPrefix, filename)
    IN  IF rd.err # nil THEN [file |-> BufferedFile(<<>>, ""), err |-> rd.err]
        ELSE IF rel.err # nil THEN [file |-> BufferedFile(<<>>, ""), err |-> rel.err]
        ELSE [file |-> BufferedFile(rel.path, rd.bytes), err |-> nil]

Call(op, path) == [op |-> op, path |-> path]

\* the loop over the required files returning what it has read so far
ReadRequired_Partial ==
    /\ pc = "required"
    /\ LET filename == Join(<<chartDirName, <<requiredFiles[i]>>>>)
           r == readFile(chart, filename, chartDirName)
       IN  /\ calls' = Append(calls, Call("ReadFile", filename))
           /\ IF r.err # nil
              THEN /\ pc' = "done"
                   /\ retFiles' = chartFiles
                   /\ retErr' = r.err
                   /\ UNCHANGED <<i, chartFiles>>
              ELSE /\ chartFiles' = Append(chartFiles, r.file)
                   /\ i' = i + 1
                   /\ pc' = IF i = Len(requiredFiles) THEN "readdir" ELSE "required"
                   /\ UNCHANGED <<retFiles, retErr>>
    /\ UNCHANGED <<chart, chartDirName, dirs, j>>
    /\ UNCHANGED others

\* the loop over the required files going on after a failed read
ReadRequired_Skip ==
    /\ pc = "required"
    /\ LET filename == Join(<<chartDirName, <<requiredFiles[i]>>>>)
           r == readFile(chart, filename, chartDirName)
       IN  /\ calls' = Append(calls, Call("ReadFile", filename))
           /\ chartFiles' = IF r.err # nil THEN chartFiles ELSE Append(chartFiles, r.file)
           /\ i' = i + 1
           /\ pc' = IF i = Len(requiredFiles) THEN "readdir" ELSE "required"
           /\ UNCHANGED <<retFiles, retErr>>
    /\ UNCHANGED <<chart, chartDirName, dirs, j>>
    /\ UNCHANGED others

\* one iteration of the loop over the required files (lines 69-75)
ReadRequired ==
    /\ pc = "required"
    /\ LET filename == Join(<<chartDirName, <<requiredFiles[i]>>>>)
           r == readFile(chart, filename, chartDirName)
       IN  /\ calls' = Append(calls, Call("ReadFile", filename))
           /\ IF r.err # nil
              THEN /\ pc' = "done"
                   /\ retFiles' = <<>>
                   /\ retErr' = r.err
                   /\ UNCHANGED <<i, chartFiles>>
              ELSE /\ chartFiles' = Append(chartFiles, r.file)
                   /\ i' = i + 1
                   /\ pc' = IF i = Len(requiredFiles) THEN "readdir" ELSE "required"
                   /\ UNCHANGED <<retFiles, retErr>>
    /\ UNCHANGED <<chart, chartDirName, dirs, j>>
    /\ UNCHANGED others

\* the listing of templates/ taking a failed listing for an empty one
ListTemplates_EmptyOk ==
    /\ pc = "readdir"
    /\ LET name == Join(<<chartDirName, <<templatesDirName>>>>)
           r == ReadDir(chart, name)
       IN  /\ calls' = Append(calls, Call("ReadDir", name))
           /\ dirs' = r.entries
           /\ j' = 1
           /\ pc' = "templates"
           /\ UNCHANGED <<retFiles, retErr>>
    /\ UNCHANGED <<chart, chartDirName, i, chartFiles>>
    /\ UNCHANGED others

\* the listing of templates/ (lines 78-81)
ListTemplates ==
    /\ pc = "readdir"
    /\ LET name == Join(<<chartDirName, <<templatesDirName>>>>)
           r == ReadDir(chart, name)
       IN  /\ calls' = Append(calls, Call("ReadDir", name))
           /\ IF r.err # nil
              THEN /\ pc' = "done"
                   /\ retFiles' = <<>>
                   /\ retErr' = r.err
                   /\ UNCHANGED <<dirs, j>>
              ELSE /\ dirs' = r.entries
                   /\ j' = 1
                   /\ pc' = "templates"
                   /\ UNCHANGED <<retFiles, retErr>>
    /\ UNCHANGED <<chart, chartDirName, i, chartFiles>>
    /\ UNCHANGED others

\* the loop over the listing putting each file in front of the slice
ReadTemplate_Prepend ==
    /\ pc = "templates"
    /\ j <= Len(dirs)
    /\ LET f == dirs[j]
           filename == Join(<<chartDirName, <<templatesDirName>>, <<f.Name>>>>)
           r == readFile(chart, filename, chartDirName)
       IN  IF f.IsDir
           THEN /\ j' = j + 1
                /\ UNCHANGED <<pc, chartFiles, retFiles, retErr, calls>>
           ELSE /\ calls' = Append(calls, Call("ReadFile", filename))
                /\ IF r.err # nil
                   THEN /\ pc' = "done"
                        /\ retFiles' = <<>>
                        /\ retErr' = r.err
                        /\ UNCHANGED <<j, chartFiles>>
                   ELSE /\ chartFiles' = <<r.file>> \o chartFiles
                        /\ j' = j + 1
                        /\ UNCHANGED <<pc, retFiles, retErr>>
    /\ UNCHANGED <<chart, chartDirName, i, dirs>>
    /\ UNCHANGED others

\* the loop over the listing with the directory test inverted
ReadTemplate_SkipFiles ==
    /\ pc = "templates"
    /\ j <= Len(dirs)
    /\ LET f == dirs[j]
           filename == Join(<<chartDirName, <<templatesDirName>>, <<f.Name>>>>)
           r == readFile(chart, filename, chartDirName)
       IN  IF ~f.IsDir
           THEN /\ j' = j + 1
                /\ UNCHANGED <<pc, chartFiles, retFiles, retErr, calls>>
           ELSE /\ calls' = Append(calls, Call("ReadFile", filename))
                /\ IF r.err # nil
                   THEN /\ pc' = "done"
                        /\ retFiles' = <<>>
                        /\ retErr' = r.err
                        /\ UNCHANGED <<j, chartFiles>>
                   ELSE /\ chartFiles' = Append(chartFiles, r.file)
                        /\ j' = j + 1
                        /\ UNCHANGED <<pc, retFiles, retErr>>
    /\ UNCHANGED <<chart, chartDirName, i, dirs>>
    /\ UNCHANGED others

\* the loop over the listing going on after a failed read
ReadTemplate_SkipErr ==
    /\ pc = "templates"
    /\ j <= Len(dirs)
    /\ LET f == dirs[j]
           filename == Join(<<chartDirName, <<templatesDirName>>, <<f.Name>>>>)
           r == readFile(chart, filename, chartDirName)
       IN  IF f.IsDir
           THEN /\ j' = j + 1
                /\ UNCHANGED <<pc, chartFiles, retFiles, retErr, calls>>
           ELSE /\ calls' = Append(calls, Call("ReadFile", filename))
                /\ IF r.err # nil
                   THEN /\ j' = j + 1
                        /\ UNCHANGED <<pc, chartFiles, retFiles, retErr>>
                   ELSE /\ chartFiles' = Append(chartFiles, r.file)
                        /\ j' = j + 1
                        /\ UNCHANGED <<pc, retFiles, retErr>>
    /\ UNCHANGED <<chart, chartDirName, i, dirs>>
    /\ UNCHANGED others

\* one iteration of the loop over the listing (lines 83-94)
ReadTemplate ==
    /\ pc = "templates"
    /\ j <= Len(dirs)
    /\ LET f == dirs[j]
           filename == Join(<<chartDirName, <<templatesDirName>>, <<f.Name>>>>)
           r == readFile(chart, filename, chartDirName)
       IN  IF f.IsDir
           THEN /\ j' = j + 1
                /\ UNCHANGED <<pc, chartFiles, retFiles, retErr, calls>>
           ELSE /\ calls' = Append(calls, Call("ReadFile", filename))
                /\ IF r.err # nil
                   THEN /\ pc' = "done"
                        /\ retFiles' = <<>>
                        /\ retErr' = r.err
                        /\ UNCHANGED <<j, chartFiles>>
                   ELSE /\ chartFiles' = Append(chartFiles, r.file)
                        /\ j' = j + 1
                        /\ UNCHANGED <<pc, retFiles, retErr>>
    /\ UNCHANGED <<chart, chartDirName, i, dirs>>
    /\ UNCHANGED others

\* return chartFiles, nil (line 96)
Return ==
    /\ pc = "templates"
    /\ j > Len(dirs)
    /\ pc' = "done"
    /\ retFiles' = chartFiles
    /\ retErr' = nil
    /\ UNCHANGED <<chart, chartDirName, i, dirs, j, chartFiles, calls>>
    /\ UNCHANGED others

----------------------------------------------------------------------------
(* The trees and the initial states *)

\* one entry directly in templates/: its name, what it is, its content
EntrySet(kinds) ==
    { [name |-> n, kind |-> k, data |-> d] :
        n \in TemplateNames, k \in kinds \ {"file"}, d \in {""} }
    \cup
    { [name |-> n, kind |-> k, data |-> d] :
        n \in TemplateNames, k \in kinds \cap {"file"}, d \in Contents }

\* the listings of templates/: no name twice, in any order
Listings(kinds) ==
    { l \in UNION { [1..n -> EntrySet(kinds)] : n \in 0..MaxEntries } :
        \A a, b \in 1..Len(l) : a # b => l[a].name # l[b].name }

\* the tree holding a chart at dir: ck and vk say what Chart.yaml and
\* values.yaml are, tk what templates is, listing what templates/ holds
MkTree(dir, ck, vk, tk, listing) ==
    LET cpath == Join(<<dir, <<chartFileName>>>>)
        vpath == Join(<<dir, <<valuesFileName>>>>)
        tpath == Join(<<dir, <<templatesDirName>>>>)
        epath(k) == tpath \o <<listing[k].name>>
        idx == 1..Len(listing)
        paths == (IF ck = "absent" THEN {} ELSE {cpath})
                 \cup (IF vk = "absent" THEN {} ELSE {vpath})
                 \cup (IF tk = "absent" THEN {} ELSE {tpath})
                 \cup (IF tk = "dir" THEN { epath(k) : k \in idx } ELSE {})
                 \cup (IF tk = "dir"
                       THEN { epath(k) \o <<nestedName>> :
                                k \in { x \in idx : listing[x].kind = "dir" } }
                       ELSE {})
        names == [k \in idx |-> listing[k].name]
    IN  [p \in paths |->
            IF p = cpath THEN Node(ck, IF ck = "file" THEN chartData ELSE "", <<>>)
            ELSE IF p = vpath THEN Node(vk, IF vk = "file" THEN valuesData ELSE "", <<>>)
            ELSE IF p = tpath THEN Node(tk, "", IF tk = "dir" THEN names ELSE <<>>)
            ELSE IF \E k \in idx : p = epath(k)
            THEN LET k == CHOOSE x \in idx : p = epath(x)
                 IN  Node(listing[k].kind, listing[k].data,
                          IF listing[k].kind = "dir" THEN <<nestedName>> ELSE <<>>)
            ELSE Node("file", nestedData, <<>>)]

\* LoadChart has not returned
LoadIdle == [returned |-> FALSE, loaderArgs |-> <<>>, chart |-> "nil", err |-> nil]

\* no second call is running
OtherIdle ==
    [pc |-> "idle", chartDirName |-> <<>>, i |-> 1, dirs |-> <<>>, j |-> 1,
     chartFiles |-> <<>>, retFiles |-> <<>>, retErr |-> nil]

\* FetchChartValues is not running
FetchIdle == [pc |-> "idle"]

\* TestControllerNamespaces is not running
TestIdle == [phase |-> "idle"]

InitWith(fileKinds) ==
    /\ chartDirName \in ChartDirNames
    /\ \E ck, vk \in fileKinds \cup {"absent"} :
       \E tk \in {"absent", "file", "dir"} :
       \E listing \in Listings(fileKinds) :
          /\ tk # "dir" => listing = <<>>
          /\ chart = MkTree(chartDirName, ck, vk, tk, listing)
    /\ pc = "required"
    /\ i = 1
    /\ dirs = <<>>
    /\ j = 1
    /\ chartFiles = <<>>
    /\ retFiles = <<>>
    /\ retErr = nil
    /\ calls = <<>>
    /\ Separator = "/"
    /\ results = <<>>
    /\ load = LoadIdle
    /\ other = OtherIdle
    /\ fetch = FetchIdle
    /\ test = TestIdle

\* the embedded tree: regular files and directories
Init == InitWith({"file", "dir"})

\* a tree in which the read of a listed regular file may fail
InitFault == InitWith({"file", "dir", "broken"})

Next ==
    \/ ReadRequired
    \/ ListTemplates
    \/ ReadTemplate
    \/ Return

Spec == Init /\ [][Next]_vars

SpecFault == InitFault /\ [][Next]_vars

\* the separators of the platforms the program is built for
Separators == {"/", "\\"}

\* the embedded tree on any platform: the names in the tree are spelled with
\* "/" whatever the platform
InitPlatform ==
    /\ chartDirName \in ChartDirNames
    /\ \E ck, vk \in {"file", "dir", "absent"} :
       \E tk \in {"absent", "file", "dir"} :
       \E listing \in Listings({"file", "dir"}) :
          /\ tk # "dir" => listing = <<>>
          /\ chart = MkTree(chartDirName, ck, vk, tk, listing)
    /\ pc = "required"
    /\ i = 1
    /\ dirs = <<>>
    /\ j = 1
    /\ chartFiles = <<>>
    /\ retFiles = <<>>
    /\ retErr = nil
    /\ calls = <<>>
    /\ Separator \in Separators
    /\ results = <<>>
    /\ load = LoadIdle
    /\ other = OtherIdle
    /\ fetch = FetchIdle
    /\ test = TestIdle

SpecPlatform == InitPlatform /\ [][Next]_vars

----------------------------------------------------------------------------
(* LoadChart, and calls made one after the other *)

locals == <<pc, i, dirs, j, chartFiles, retFiles, retErr, calls>>

ErrLoader == PathError("LoadFiles", <<>>, "chart metadata is missing")

\* what loader.LoadFiles may answer: a chart, or no chart and an error
LoaderOutcomes == { [chart |-> "chart", err |-> nil], [chart |-> "nil", err |-> ErrLoader] }

\* LoadChart without the return on an error of readChartFiles
LoadChart_LoadAnyway ==
    /\ pc = "done"
    /\ ~load.returned
    /\ \E out \in LoaderOutcomes :
          load' = [returned |-> TRUE, loaderArgs |-> <<retFiles>>,
                   chart |-> out.chart, err |-> out.err]
    /\ UNCHANGED <<chart, chartDirName, locals, Separator, results, other, fetch, test>>

\* LoadChart once readChartFiles has returned (lines 22-26)
LoadChart ==
    /\ pc = "done"
    /\ ~load.returned
    /\ IF retErr # nil
       THEN load' = [returned |-> TRUE, loaderArgs |-> <<>>, chart |-> "nil", err |-> retErr]
       ELSE \E out \in LoaderOutcomes :
               load' = [returned |-> TRUE, loaderArgs |-> <<retFiles>>,
                        chart |-> out.chart, err |-> out.err]
    /\ UNCHANGED <<chart, chartDirName, locals, Separator, results, other, fetch, test>>

\* the slice of the call before is kept: chartFiles is not a fresh local
CallAgain_KeepSlice ==
    /\ pc = "done"
    /\ load.returned
    /\ Len(results) + 1 < MaxCalls
    /\ results' = Append(results, [dir |-> chartDirName, files |-> retFiles, err |-> retErr])
    /\ chartDirName' \in ChartDirNames
    /\ pc' = "required"
    /\ i' = 1
    /\ dirs' = <<>>
    /\ j' = 1
    /\ chartFiles' = chartFiles
    /\ retFiles' = <<>>
    /\ retErr' = nil
    /\ calls' = <<>>
    /\ load' = LoadIdle
    /\ UNCHANGED <<chart, Separator, other, fetch, test>>

\* the result of the call before is handed out again, whatever the argument
CallAgain_Cached ==
    /\ pc = "done"
    /\ load.returned
    /\ Len(results) + 1 < MaxCalls
    /\ results' = Append(results, [dir |-> chartDirName, files |-> retFiles, err |-> retErr])
    /\ chartDirName' \in ChartDirNames
    /\ pc' = "done"
    /\ calls' = <<>>
    /\ load' = LoadIdle
    /\ UNCHANGED <<chart, i, dirs, j, chartFiles, retFiles, retErr, Separator, other, fetch, test>>

\* LoadChart is called again on the same tree: readChartFiles is entered
\* with fresh locals (lines 20-21 and 65-66)
CallAgain ==
    /\ pc = "done"
    /\ load.returned
    /\ Len(results) + 1 < MaxCalls
    /\ results' = Append(results, [dir |-> chartDirName, files |-> retFiles, err |-> retErr])
    /\ chartDirName' \in ChartDirNames
    /\ pc' = "required"
    /\ i' = 1
    /\ dirs' = <<>>
    /\ j' = 1
    /\ chartFiles' = <<>>
    /\ retFiles' = <<>>
    /\ retErr' = nil
    /\ calls' = <<>>
    /\ load' = LoadIdle
    /\ UNCHANGED <<chart, Separator, other, fetch, test>>

NextCalls ==
    \/ ReadRequired
    \/ ListTemplates
    \/ ReadTemplate
    \/ Return
    \/ LoadChart
    \/ CallAgain

SpecCalls == Init /\ [][NextCalls]_vars

----------------------------------------------------------------------------
(* FetchChartValues *)

HelmNamespaces == {"consul", "default"}
ReleaseNames == {"consul", "other"}

\* a map[string]interface{} is the set of its key/value pairs; nil is empty
NilValues == {}
Configs == { {<<"global.name", "consul">>},
             {<<"global.name", "consul">>, <<"server.replicas", "3">>} }

ErrInit == PathError("InitActionConfig", <<>>, "kubernetes cluster unreachable")
ErrReleaseNotFound == PathError("Status", <<>>, "release: not found")

\* the releases installed in the cluster: (namespace, name) -> Config
ReleaseStores ==
    UNION { [ks -> Configs] : ks \in SUBSET (HelmNamespaces \X ReleaseNames) }

\* the locals of readChartFiles while no chart is being read
ChartIdle ==
    /\ chart = MkTree(<<".">>, "absent", "absent", "absent", <<>>)
    /\ chartDirName = <<".">>
    /\ pc = "idle"
    /\ i = 1
    /\ dirs = <<>>
    /\ j = 1
    /\ chartFiles = <<>>
    /\ retFiles = <<>>
    /\ retErr = nil
    /\ calls = <<>>
    /\ Separator = "/"
    /\ results = <<>>
    /\ load = LoadIdle
    /\ other = OtherIdle

\* FetchChartValues is entered (line 31); whether the action configuration
\* can be initialised and which releases exist is the cluster's affair
InitFetch ==
    /\ ChartIdle
    /\ test = TestIdle
    /\ \E ns \in HelmNamespaces, name \in ReleaseNames, ok \in BOOLEAN,
          store \in ReleaseStores :
          fetch = [pc |-> "init", namespace |-> ns, name |-> name,
                   initOk |-> ok, releases |-> store,
                   inits |-> 0, runs |-> 0, cfgNamespace |-> "",
                   runErr |-> nil, values |-> NilValues, err |-> nil]

\* the status query is made again after it failed
FetchStatus_Retry ==
    /\ fetch.pc = "status"
    /\ LET key == <<fetch.cfgNamespace, fetch.name>>
           found == key \in DOMAIN fetch.releases
       IN  fetch' = IF found
                    THEN [fetch EXCEPT !.pc = "done", !.runs = @ + 1,
                                       !.values = fetch.releases[key], !.err = nil]
                    ELSE IF fetch.runs < 2
                    THEN [fetch EXCEPT !.runs = @ + 1, !.runErr = ErrReleaseNotFound]
                    ELSE [fetch EXCEPT !.pc = "done", !.runErr = ErrReleaseNotFound,
                                       !.values = NilValues, !.err = ErrReleaseNotFound]
    /\ UNCHANGED <<chart, chartDirName, locals, Separator, results, load, other, test>>

\* cfg is initialised for the namespace (lines 32-36)
FetchInit ==
    /\ fetch.pc = "init"
    /\ fetch' = IF fetch.initOk
                THEN [fetch EXCEPT !.pc = "status", !.inits = @ + 1,
                                   !.cfgNamespace = fetch.namespace]
                ELSE [fetch EXCEPT !.pc = "done", !.inits = @ + 1,
                                   !.values = NilValues, !.err = ErrInit]
    /\ UNCHANGED <<chart, chartDirName, locals, Separator, results, load, other, test>>

\* status.Run(name) and the return of its release's Config (lines 38-44)
FetchStatus ==
    /\ fetch.pc = "status"
    /\ LET key == <<fetch.cfgNamespace, fetch.name>>
           found == key \in DOMAIN fetch.releases
       IN  fetch' = IF found
                    THEN [fetch EXCEPT !.pc = "done", !.runs = @ + 1,
                                       !.values = fetch.releases[key], !.err = nil]
                    ELSE [fetch EXCEPT !.pc = "done", !.runs = @ + 1,
                                       !.runErr = ErrReleaseNotFound,
                                       !.values = NilValues, !.err = ErrReleaseNotFound]
    /\ UNCHANGED <<chart, chartDirName, locals, Separator, results, load, other, test>>

NextFetch ==
    \/ FetchInit
    \/ FetchStatus

SpecFetch == InitFetch /\ [][NextFetch]_vars

----------------------------------------------------------------------------
(* Two calls of readChartFiles running in parallel on the same tree *)

\* one step of readChartFiles on the locals st of a call (lines 65-97):
\* an iteration of the first loop, the listing, an iteration of the second
\* loop, or the return
StepOf(fs, st) ==
    IF st.pc = "required"
    THEN LET filename == Join(<<st.chartDirName, <<requiredFiles[st.i]>>>>)
             r == readFile(fs, filename, st.chartDirName)
         IN  IF r.err # nil
             THEN [st EXCEPT !.pc = "done", !.retFiles = <<>>, !.retErr = r.err]
             ELSE [st EXCEPT !.chartFiles = Append(@, r.file), !.i = @ + 1,
                             !.pc = IF st.i = Len(requiredFiles)
                                    THEN "readdir" ELSE "required"]
    ELSE IF st.pc = "readdir"
    THEN LET r == ReadDir(fs, Join(<<st.chartDirName, <<templatesDirName>>>>))
         IN  IF r.err # nil
             THEN [st EXCEPT !.pc = "done", !.retFiles = <<>>, !.retErr = r.err]
             ELSE [st EXCEPT !.dirs = r.entries, !.j = 1, !.pc = "templates"]
    ELSE IF st.pc = "templates" /\ st.j <= Len(st.dirs)
    THEN LET f == st.dirs[st.j]
             filename == Join(<<st.chartDirName, <<templatesDirName>>, <<f.Name>>>>)
             r == readFile(fs, filename, st.chartDirName)
         IN  IF f.IsDir THEN [st EXCEPT !.j = @ + 1]
             ELSE IF r.err # nil
             THEN [st EXCEPT !.pc = "done", !.retFiles = <<>>, !.retErr = r.err]
             ELSE [st EXCEPT !.chartFiles = Append(@, r.file), !.j = @ + 1]
    ELSE [st EXCEPT !.pc = "done", !.retFiles = st.chartFiles, !.retErr = nil]

\* the second call appends to the slice of the first: chartFiles is shared
OtherStep_SharedSlice ==
    /\ other.pc \in {"required", "readdir", "templates"}
    /\ LET st == StepOf(chart, [other EXCEPT !.chartFiles = chartFiles])
       IN  /\ other' = st
           /\ chartFiles' = st.chartFiles
    /\ UNCHANGED <<chart, chartDirName, pc, i, dirs, j, retFiles, retErr, calls,
                   Separator, results, load, fetch, test>>

\* a step of the second call
OtherStep ==
    /\ other.pc \in {"required", "readdir", "templates"}
    /\ other' = StepOf(chart, other)
    /\ UNCHANGED <<chart, chartDirName, locals, Separator, results, load, fetch, test>>

\* both calls have been entered on the same tree
InitPar ==
    /\ chartDirName \in ChartDirNames
    /\ \E ck, vk \in {"file", "dir", "absent"} :
       \E tk \in {"absent", "file", "dir"} :
       \E listing \in Listings({"file", "dir"}) :
          /\ tk # "dir" => listing = <<>>
          /\ chart = MkTree(chartDirName, ck, vk, tk, listing)
    /\ pc = "required"
    /\ i = 1
    /\ dirs = <<>>
    /\ j = 1
    /\ chartFiles = <<>>
    /\ retFiles = <<>>
    /\ retErr = nil
    /\ calls = <<>>
    /\ Separator = "/"
    /\ results = <<>>
    /\ load = LoadIdle
    /\ \E d \in ChartDirNames :
          other = [OtherIdle EXCEPT !.pc = "required", !.chartDirName = d]
    /\ fetch = FetchIdle
    /\ test = TestIdle

NextPar ==
    \/ ReadRequired
    \/ ListTemplates
    \/ ReadTemplate
    \/ Return
    \/ OtherStep

SpecPar == InitPar /\ [][NextPar]_vars

----------------------------------------------------------------------------
(* TestControllerNamespaces *)

KubeNS == "ns1"
ConsulDestNS == "from-k8s"
DefaultConsulNamespace == "default"
IntentionName == "svc1"

\* largest number of config entries one run of the controller leaves unsynced
MaxFaults == 1

\* largest number of runs of one assertion function that is followed
MaxAttempts == 2

\* retry.Counter{Count: ...} of the three assertion loops
createCount == 60
updateCount == 20
deleteCount == 20

\* the table of cases (lines 46-76)
cases ==
    { [name |-> "single destination namespace (non-default)",
       destinationNamespace |-> ConsulDestNS, mirrorK8S |-> FALSE, secure |-> FALSE],
      [name |-> "single destination namespace (non-default); secure",
       destinationNamespace |-> ConsulDestNS, mirrorK8S |-> FALSE, secure |-> TRUE],
      [name |-> "mirror k8s namespaces",
       destinationNamespace |-> KubeNS, mirrorK8S |-> TRUE, secure |-> FALSE],
      [name |-> "mirror k8s namespaces; secure",
       destinationNamespace |-> KubeNS, mirrorK8S |-> TRUE, secure |-> TRUE] }

\* queryOpts without the override for a single destination namespace
queryOpts_AlwaysKubeNS(c) == KubeNS

\* queryOpts.Namespace (lines 115-118)
queryOpts(c) == IF ~c.mirrorK8S THEN c.destinationNamespace ELSE KubeNS

\* defaultOpts.Namespace (lines 119-121)
defaultOpts == DefaultConsulNamespace

\* consulClient.ConfigEntries().Get(kind, name, opts)
Get(kind, name, ns) == [kind |-> kind, name |-> name, ns |-> ns]

\* the Get calls of the creation assertions, in order (lines 141-241); the
\* assertions after the patches make the same calls (lines 325-405)
CreateGets(c) ==
    << Get("service-defaults", "defaults", queryOpts(c)),
       Get("service-resolver", "resolver", queryOpts(c)),
       Get("proxy-defaults", "global", defaultOpts),
       Get("mesh", "mesh", defaultOpts),
       Get("service-router", "router", queryOpts(c)),
       Get("service-splitter", "splitter", queryOpts(c)),
       Get("service-intentions", IntentionName, queryOpts(c)),
       Get("ingress-gateway", "ingress-gateway", queryOpts(c)),
       Get("terminating-gateway", "terminating-gateway", queryOpts(c)),
       Get("jwt-provider", "jwt-provider", defaultOpts),
       Get("exported-services", "default", defaultOpts),
       Get("control-plane-request-limit", "controlplanerequestlimit", defaultOpts) >>

\* the Get calls of the delete assertions, in order (lines 453-509)
DeleteGets(c) ==
    << Get("service-defaults", "defaults", queryOpts(c)),
       Get("service-resolver", "resolver", queryOpts(c)),
       Get("proxy-defaults", "global", defaultOpts),
       Get("mesh", "mesh", defaultOpts),
       Get("service-router", "router", queryOpts(c)),
       Get("service-splitter", "splitter", queryOpts(c)),
       Get("service-intentions", IntentionName, queryOpts(c)),
       Get("ingress-gateway", "ingress-gateway", queryOpts(c)),
       Get("ingress-gateway", "terminating-gateway", queryOpts(c)),
       Get("jwt-provider", "jwt-provider", defaultOpts),
       Get("exported-services", "default", defaultOpts),
       Get("control-plane-request-limit", "controlplanerequestlimit", defaultOpts) >>

\* the config entries the twelve custom resources of the fixture are
\* mirrored to; the global ones are not kept per namespace
Resources ==
    { [kind |-> "service-defaults", name |-> "defaults", global |-> FALSE],
      [kind |-> "service-resolver", name |-> "resolver", global |-> FALSE],
      [kind |-> "proxy-defaults", name |-> "global", global |-> TRUE],
      [kind |-> "mesh", name |-> "mesh", global |-> TRUE],
      [kind |-> "service-router", name |-> "router", global |-> FALSE],
      [kind |-> "service-splitter", name |-> "splitter", global |-> FALSE],
      [kind |-> "service-intentions", name |-> IntentionName, global |-> FALSE],
      [kind |-> "ingress-gateway", name |-> "ingress-gateway", global |-> FALSE],
      [kind |-> "terminating-gateway", name |-> "terminating-gateway", global |-> FALSE],
      [kind |-> "jwt-provider", name |-> "jwt-provider", global |-> TRUE],
      [kind |-> "exported-services", name |-> "default", global |-> TRUE],
      [kind |-> "control-plane-request-limit", name |-> "controlplanerequestlimit",
       global |-> TRUE] }

ConsulNamespaces == {KubeNS, ConsulDestNS, DefaultConsulNamespace}

\* the config entry of resource r as the controller writes it
EntryOf(r, nsN, nsG, rev) ==
    [kind |-> r.kind, name |-> r.name, ns |-> IF r.global THEN nsG ELSE nsN, rev |-> rev]

IsOf(e, r) == e.kind = r.kind /\ e.name = r.name

\* Get answers without error and the entry has the values asserted
Found(consul, q, rev) ==
    \E e \in consul : e.kind = q.kind /\ e.name = q.name /\ e.ns = q.ns /\ e.rev = rev

\* Get answers "404 (Config entry not found"
NotFound(consul, q) ==
    ~\E e \in consul : e.kind = q.kind /\ e.name = q.name /\ e.ns = q.ns

\* the calls one run of an assertion function makes: it stops at the first
\* require that fails; ok[k] says whether the requires on gets[k] hold
Issued(gets, ok) ==
    IF \A k \in 1..Len(gets) : ok[k] THEN gets
    ELSE SubSeq(gets, 1, CHOOSE k \in 1..Len(gets) :
                            ~ok[k] /\ \A m \in 1..(k - 1) : ok[m])

\* retry.Counter{Count: count}, followed for at most MaxAttempts runs
Counter(count) == IF count < MaxAttempts THEN count ELSE MaxAttempts

\* one run of the function given to retry.RunWith: on to the next phase when
\* every require holds, another run while the counter lasts, else the test
\* fails
Attempt(t, gets, ok, count, nextPhase) ==
    IF \A k \in 1..Len(gets) : ok[k]
    THEN [t EXCEPT !.phase = nextPhase, !.attempts = 0, !.gets = gets]
    ELSE IF t.attempts + 1 >= count
    THEN [t EXCEPT !.phase = "failed", !.gets = Issued(gets, ok)]
    ELSE [t EXCEPT !.attempts = @ + 1, !.gets = Issued(gets, ok)]

chartVars == <<chart, chartDirName, locals, Separator, results, load, other, fetch>>

\* kubectl apply of the fixture (lines 126-134)
ApplyResources ==
    /\ test.phase = "apply"
    /\ test' = [test EXCEPT !.phase = "assertCreate", !.crs = "applied"]
    /\ UNCHANGED chartVars

\* the creation assertions (lines 139-274)
AssertCreated ==
    /\ test.phase = "assertCreate"
    /\ LET gets == CreateGets(test.c)
           ok == [k \in 1..Len(gets) |-> Found(test.consul, gets[k], "created")]
       IN  test' = Attempt(test, gets, ok, Counter(createCount), "patch")
    /\ UNCHANGED chartVars

\* kubectl patch of the twelve resources (lines 279-321)
PatchResources ==
    /\ test.phase = "patch"
    /\ test' = [test EXCEPT !.phase = "assertUpdate", !.crs = "patched"]
    /\ UNCHANGED chartVars

\* the assertions after the patches (lines 323-410)
AssertUpdated ==
    /\ test.phase = "assertUpdate"
    /\ LET gets == CreateGets(test.c)
           ok == [k \in 1..Len(gets) |-> Found(test.consul, gets[k], "patched")]
       IN  test' = Attempt(test, gets, ok, Counter(updateCount), "delete")
    /\ UNCHANGED chartVars

\* kubectl delete of the twelve resources (lines 414-449)
DeleteResources ==
    /\ test.phase = "delete"
    /\ test' = [test EXCEPT !.phase = "assertDelete", !.crs = "deleted"]
    /\ UNCHANGED chartVars

\* the delete assertions (lines 451-512)
AssertDeleted ==
    /\ test.phase = "assertDelete"
    /\ LET gets == DeleteGets(test.c)
           ok == [k \in 1..Len(gets) |-> NotFound(test.consul, gets[k])]
       IN  test' = Attempt(test, gets, ok, Counter(deleteCount), "passed")
    /\ UNCHANGED chartVars

\* the sets of resources one run of the controller may leave unsynced
FaultSets == { S \in SUBSET Resources : Cardinality(S) <= MaxFaults }

\* a run of the controller under test: it brings the control plane to what
\* the custom resources say, except for at most MaxFaults resources whose
\* entries it leaves as they are
Reconcile ==
    /\ test.crs # "none"
    /\ test.phase \notin {"passed", "failed"}
    /\ \E F \in FaultSets :
         LET rev == IF test.crs = "applied" THEN "created" ELSE "patched"
             target == IF test.crs = "deleted" THEN {}
                       ELSE { EntryOf(r, test.nsN, test.nsG, rev) : r \in Resources \ F }
             stale == { e \in test.consul : \E r \in F : IsOf(e, r) }
         IN  /\ test.consul # target \cup stale
             /\ test' = [test EXCEPT !.consul = target \cup stale]
    /\ UNCHANGED chartVars

\* a case of the table is run on a fresh installation; where the controller
\* writes the entries is the controller's affair
InitTest ==
    /\ ChartIdle
    /\ fetch = FetchIdle
    /\ \E c \in cases, nsN \in ConsulNamespaces, nsG \in ConsulNamespaces :
          test = [phase |-> "apply", c |-> c, nsN |-> nsN, nsG |-> nsG,
                  crs |-> "none", consul |-> {}, attempts |-> 0, gets |-> <<>>]

NextTest ==
    \/ ApplyResources
    \/ AssertCreated
    \/ PatchResources
    \/ AssertUpdated
    \/ DeleteResources
    \/ AssertDeleted
    \/ Reconcile

SpecTest == InitTest /\ [][NextTest]_vars

----------------------------------------------------------------------------
(* readChartFiles as a function of its arguments *)

\* the loop over the listing (lines 83-96), from the entries still to visit
RECURSIVE RunTemplates(_, _, _, _)
RunTemplates(fs, dir, entries, acc) ==
    IF entries = <<>> THEN [files |-> acc, err |-> nil]
    ELSE LET f == Head(entries)
             r == readFile(fs, Join(<<dir, <<templatesDirName>>, <<f.Name>>>>), dir)
         IN  IF f.IsDir THEN RunTemplates(fs, dir, Tail(entries), acc)
             ELSE IF r.err # nil THEN [files |-> <<>>, err |-> r.err]
             ELSE RunTemplates(fs, dir, Tail(entries), Append(acc, r.file))

\* the loop over the required files (lines 69-75), then the listing (78-81)
RECURSIVE RunRequired(_, _, _, _)
RunRequired(fs, dir, names, acc) ==
    IF names = <<>>
    THEN LET d == ReadDir(fs, Join(<<dir, <<templatesDirName>>>>))
         IN  IF d.err # nil THEN [files |-> <<>>, err |-> d.err]
             ELSE RunTemplates(fs, dir, d.entries, acc)
    ELSE LET r == readFile(fs, Join(<<dir, <<Head(names)>>>>), dir)
         IN  IF r.err # nil THEN [files |-> <<>>, err |-> r.err]
             ELSE RunRequired(fs, dir, Tail(names), Append(acc, r.file))

\* what readChartFiles(fs, dir) returns when it runs alone (lines 65-97)
RunAlone(fs, dir) == RunRequired(fs, dir, requiredFiles, <<>>)

----------------------------------------------------------------------------
(* What the tree holds, read off the tree itself *)

cpath == Join(<<chartDirName, <<chartFileName>>>>)
vpath == Join(<<chartDirName, <<valuesFileName>>>>)
tpath == Join(<<chartDirName, <<templatesDirName>>>>)

Kind(p) == IF p \in DOMAIN chart THEN chart[p].kind ELSE "absent"

\* the names directly in templates/, in listing order
Listing == IF Kind(tpath) = "dir" THEN chart[tpath].entries ELSE <<>>

IsSubDir(n) == Kind(tpath \o <<n>>) = "dir"
NotSubDir(n) == ~IsSubDir(n)

\* the names of the entries of templates/ that are not directories
RegularNames == SelectSeq(Listing, NotSubDir)

IsPrefix(a, b) == Len(a) <= Len(b) /\ SubSeq(b, 1, Len(a)) = a

Names(files) == [k \in 1..Len(files) |-> files[k].Name]

Success == pc = "done" /\ retErr = nil
Failure == pc = "done" /\ retErr # nil

\* the positions of the listing whose entry cannot be read
BrokenAt == { k \in 1..Len(Listing) : Kind(tpath \o <<Listing[k]>>) = "broken" }

----------------------------------------------------------------------------
(* Claims *)

\* C1: for every tree that holds Chart.yaml, values.yaml and a templates
\* directory, readChartFiles succeeds and returns exactly Chart.yaml,
\* values.yaml, then the non-directory entries of templates/ in the order of
\* the directory listing.
C1_SequenceInListingOrder ==
    (pc = "done" /\ Kind(cpath) = "file" /\ Kind(vpath) = "file" /\ Kind(tpath) = "dir")
    => /\ retErr = nil
       /\ Names(retFiles) =
            <<<<chartFileName>>, <<valuesFileName>>>>
            \o [k \in 1..Len(RegularNames) |-> <<templatesDirName, RegularNames[k]>>]

\* two templates returned, listed in an order that is not the sorted one
C1_Witness ==
    /\ Success
    /\ Listing = <<"svc.yaml", "dep.yaml">>
    /\ Len(retFiles) = 4

\* C2 as stated: no Name in a returned sequence starts with chartDirName.
C2_NoNameStartsWithChartDir ==
    pc = "done" => \A k \in 1..Len(retFiles) : ~IsPrefix(chartDirName, retFiles[k].Name)

\* C2 amended: in every returned sequence the first two names are exactly
\* Chart.yaml and values.yaml and every other name is templates/<entry> for an
\* entry of the listing, at every nesting depth of chartDirName; a Name
\* starts with chartDirName only when chartDirName itself begins with one of
\* Chart.yaml, values.yaml, templates.
C2_NamesRelativeToChartDir ==
    Success =>
       /\ Len(retFiles) >= 2
       /\ retFiles[1].Name = <<chartFileName>>
       /\ retFiles[2].Name = <<valuesFileName>>
       /\ \A k \in 3..Len(retFiles) :
            /\ Len(retFiles[k].Name) = 2
            /\ retFiles[k].Name[1] = templatesDirName
            /\ \E x \in 1..Len(Listing) : retFiles[k].Name[2] = Listing[x]
       /\ \A k \in 1..Len(retFiles) :
            IsPrefix(chartDirName, retFiles[k].Name)
            => chartDirName[1] \in {chartFileName, valuesFileName, templatesDirName}

\* a chart three directories deep returned with a template
C2_Witness ==
    /\ Success
    /\ Len(chartDirName) = 3
    /\ Len(retFiles) >= 3

\* C3 as stated: whenever values.yaml is absent the result is a not-found
\* error and no sequence.
C3_ValuesAbsentIsNotFound ==
    (pc = "done" /\ Kind(vpath) = "absent")
    => (retErr.Err = ErrNotExist /\ retFiles = <<>>)

\* C3 amended: whenever values.yaml is absent the call fails and returns no
\* sequence, the Chart.yaml entry already read included; the error is the
\* not-found error when Chart.yaml is absent or a regular file, and the read
\* error of Chart.yaml when Chart.yaml is there but cannot be read.
C3_ValuesAbsentFails ==
    (pc = "done" /\ Kind(vpath) = "absent")
    => /\ retErr # nil
       /\ retFiles = <<>>
       /\ Kind(cpath) = "file" => retErr = PathError("open", vpath, ErrNotExist)
       /\ Kind(cpath) = "absent" => retErr = PathError("open", cpath, ErrNotExist)
       /\ Kind(cpath) \notin {"file", "absent"}
            => (retErr.Op = "read" /\ retErr.Path = cpath /\ retErr.Err # ErrNotExist)

\* Chart.yaml was read and collected, values.yaml is absent
C3_Witness ==
    /\ Failure
    /\ Kind(vpath) = "absent"
    /\ Len(chartFiles) = 1
    /\ chartFiles[1].Name = <<chartFileName>>
    /\ retFiles = <<>>

\* C4: when Chart.yaml and values.yaml are files of the chart and there is
\* no templates directory, the call fails with the error of the directory
\* listing and returns no sequence, never the two entries alone.
C4_MissingTemplatesFails ==
    (pc = "done" /\ Kind(cpath) = "file" /\ Kind(vpath) = "file" /\ Kind(tpath) # "dir")
    => /\ retFiles = <<>>
       /\ retErr # nil
       /\ retErr.Path = tpath
       /\ Kind(tpath) = "absent" => retErr = PathError("open", tpath, ErrNotExist)
       /\ Kind(tpath) # "absent" => retErr = PathError("read", tpath, ErrNotDir)
       /\ Last(calls) = Call("ReadDir", tpath)

\* both required files collected, templates absent, nothing returned
C4_Witness ==
    /\ Failure
    /\ Kind(tpath) = "absent"
    /\ Len(chartFiles) = 2
    /\ retFiles = <<>>

\* C5: a successful output holds exactly one entry templates/<name> for every
\* regular file directly in templates/, none for a sub-directory nor for a
\* file below one, so its length is 2 plus the number of those regular files.
C5_FilesOnlyNoDescent ==
    Success =>
       /\ \A x \in 1..Len(Listing) :
            LET n == Listing[x]
                at == { k \in 1..Len(retFiles) : retFiles[k].Name = <<templatesDirName, n>> }
                below == { k \in 1..Len(retFiles) :
                             /\ Len(retFiles[k].Name) > 2
                             /\ IsPrefix(<<templatesDirName, n>>, retFiles[k].Name) }
            IN  /\ Cardinality(at) = IF IsSubDir(n) THEN 0 ELSE 1
                /\ below = {}
       /\ \A k \in 1..Len(retFiles) : retFiles[k].Data # nestedData
       /\ Len(retFiles) = 2 + Cardinality({ x \in 1..Len(Listing) : ~IsSubDir(Listing[x]) })

\* templates/ holds a regular file and a sub-directory with a file in it
C5_Witness ==
    /\ Success
    /\ \E x, y \in 1..Len(Listing) :
         /\ IsSubDir(Listing[x])
         /\ (tpath \o <<Listing[x], nestedName>>) \in DOMAIN chart
         /\ Kind(tpath \o <<Listing[y]>>) = "file"
    /\ Len(retFiles) = 3

\* C6: every entry of a successful output carries the content the tree holds
\* at join(chartDirName, Name), and every file <chartDirName>/templates/x
\* with content B has exactly one entry, named templates/x, with Data B.
C6_ContentRoundTrip ==
    Success =>
       /\ \A k \in 1..Len(retFiles) :
            LET p == Join(<<chartDirName, retFiles[k].Name>>)
            IN  /\ Kind(p) = "file"
                /\ retFiles[k].Data = chart[p].data
       /\ \A x \in 1..Len(Listing) :
            LET p == tpath \o <<Listing[x]>>
            IN  Kind(p) = "file" =>
                  /\ Cardinality({ k \in 1..Len(retFiles) :
                                     retFiles[k].Name = <<templatesDirName, Listing[x]>> }) = 1
                  /\ \E k \in 1..Len(retFiles) :
                       retFiles[k] = BufferedFile(<<templatesDirName, Listing[x]>>, chart[p].data)

\* two templates of different content came back, each with its own content
C6_Witness ==
    /\ Success
    /\ Len(retFiles) = 4
    /\ retFiles[3].Data # retFiles[4].Data
    /\ retFiles[3].Data = chart[tpath \o <<Listing[1]>>].data

\* C7: the returned sequence is non-empty only if Chart.yaml and values.yaml
\* both are files of the chart; when either is absent the result is an error
\* and no sequence, and nothing is read after the absent file.
C7_RequiredFilesOrNothing ==
    /\ retFiles # <<>> => (Kind(cpath) = "file" /\ Kind(vpath) = "file")
    /\ (pc = "done" /\ (Kind(cpath) = "absent" \/ Kind(vpath) = "absent"))
       => /\ retErr # nil
          /\ retFiles = <<>>
          /\ Len(calls) <= 2
          /\ Last(calls).op = "ReadFile"
          /\ Kind(Last(calls).path) # "file"
    /\ (Kind(cpath) = "absent" \/ Kind(vpath) = "absent")
       => pc \in {"required", "done"}

\* Chart.yaml is absent while values.yaml and a template could have been read
C7_Witness ==
    /\ Failure
    /\ Kind(cpath) = "absent"
    /\ Kind(vpath) = "file"
    /\ Len(RegularNames) >= 1
    /\ calls = <<Call("ReadFile", cpath)>>

\* C8: the calls on the tree are made in the order Chart.yaml, values.yaml,
\* templates listing; when the read of Chart.yaml fails nothing else is
\* called, when the read of values.yaml fails templates is not listed, and
\* the error returned is that of the first failing step.
C8_AbortAtFirstFailure ==
    /\ Len(calls) >= 1 => calls[1] = Call("ReadFile", cpath)
    /\ Len(calls) >= 2 => calls[2] = Call("ReadFile", vpath)
    /\ Len(calls) >= 3 => calls[3] = Call("ReadDir", tpath)
    /\ (pc = "done" /\ Kind(cpath) # "file")
       => /\ calls = <<Call("ReadFile", cpath)>>
          /\ retErr # nil
          /\ retErr.Path = cpath
    /\ (pc = "done" /\ Kind(cpath) = "file" /\ Kind(vpath) # "file")
       => /\ calls = <<Call("ReadFile", cpath), Call("ReadFile", vpath)>>
          /\ retErr # nil
          /\ retErr.Path = vpath
    /\ (pc # "required" /\ Kind(cpath) # "file") => pc = "done"

\* the read of Chart.yaml failed while values.yaml would have failed too
C8_Witness ==
    /\ Failure
    /\ Kind(cpath) = "dir"
    /\ Kind(vpath) = "absent"
    /\ Kind(tpath) = "dir"
    /\ retErr = PathError("read", cpath, ErrIsDir)

\* C9: when a regular file listed in templates/ cannot be read, the call
\* returns the error of that read (the first such file in listing order) and
\* no sequence, and reads nothing after it.
C9_UnreadableTemplateFails ==
    (pc = "done" /\ Kind(cpath) = "file" /\ Kind(vpath) = "file" /\ BrokenAt # {})
    => LET b == CHOOSE k \in BrokenAt : \A m \in BrokenAt : k <= m
           p == tpath \o <<Listing[b]>>
       IN  /\ retFiles = <<>>
           /\ retErr = PathError("read", p, ErrIO)
           /\ Last(calls) = Call("ReadFile", p)

\* the unreadable file is listed after a file that was collected
C9_Witness ==
    /\ Failure
    /\ BrokenAt = {2}
    /\ Kind(tpath \o <<Listing[1]>>) = "file"
    /\ Len(chartFiles) = 3
    /\ retFiles = <<>>

\* what made the call fail, read off the tree
Cause ==
    IF Kind(cpath) = "absent" THEN "missing required file"
    ELSE IF Kind(cpath) # "file" THEN "unreadable file"
    ELSE IF Kind(vpath) = "absent" THEN "missing required file"
    ELSE IF Kind(vpath) # "file" THEN "unreadable file"
    ELSE IF Kind(tpath) = "absent" THEN "missing templates directory"
    ELSE IF Kind(tpath) # "dir" THEN "templates is not a directory"
    ELSE IF BrokenAt # {} THEN "unreadable file"
    ELSE "none"

\* what a caller reads off the error value alone
Classify(e) ==
    IF e = nil THEN "none"
    ELSE IF e.Op = "open" /\ e.Err = ErrNotExist /\ e.Path # <<>>
            /\ Last(e.Path) \in {chartFileName, valuesFileName}
    THEN "missing required file"
    ELSE IF e.Op = "open" /\ e.Err = ErrNotExist /\ e.Path # <<>>
            /\ Last(e.Path) = templatesDirName
    THEN "missing templates directory"
    ELSE IF e.Op = "read" /\ e.Err = ErrNotDir THEN "templates is not a directory"
    ELSE IF e.Op = "read" /\ e.Err \in {ErrIsDir, ErrIO} THEN "unreadable file"
    ELSE "unknown"

\* C10: a missing required file, an unreadable file and a missing templates
\* directory give pairwise distinct errors: the cause can be read off the
\* error value alone.
C10_CauseReadOffError ==
    pc = "done" => Classify(retErr) = Cause

\* the call failed on a missing templates directory of a chart kept in a
\* directory itself named templates
C10_Witness ==
    /\ Failure
    /\ Cause = "missing templates directory"
    /\ chartDirName = <<templatesDirName>>

\* C11: two calls of readChartFiles with the same chartDirName on the
\* unchanged tree return equal results: the same error, or sequences of the
\* same length with the same names in the same order and the same data.
C11_SameArgumentsSameResult ==
    pc = "done" =>
       \A k \in 1..Len(results) :
          results[k].dir = chartDirName
          => /\ results[k].err = retErr
             /\ Len(results[k].files) = Len(retFiles)
             /\ \A x \in 1..Len(retFiles) :
                  /\ results[k].files[x].Name = retFiles[x].Name
                  /\ results[k].files[x].Data = retFiles[x].Data

\* the second of two successive calls with the same chartDirName has
\* returned two templates after Chart.yaml and values.yaml
C11_Witness ==
    /\ Success
    /\ Len(results) >= 1
    /\ results[Len(results)].dir = chartDirName
    /\ Len(retFiles) = 4
    /\ results[Len(results)].files = retFiles

\* C12: no step of readChartFiles or LoadChart changes the tree, and after
\* any calls before it, successful or failed, a call returns what
\* readChartFiles returns for its own arguments alone.
C12_TreeUnchangedNoStateKept ==
    /\ [][chart' = chart]_vars
    /\ [](pc = "done" =>
            LET r == RunAlone(chart, chartDirName)
            IN  retFiles = r.files /\ retErr = r.err)

\* a call has returned after one that succeeded with another chartDirName
C12_Witness ==
    /\ pc = "done"
    /\ load.returned
    /\ Len(results) >= 1
    /\ results[1].err = nil
    /\ results[1].dir # chartDirName
    /\ DOMAIN chart # {}

\* C13: FetchChartValues initialises the action configuration once and runs
\* the status query at most once, and never when the initialisation failed;
\* it returns the release's Config and a nil error when the query succeeds,
\* and a nil map with the query's own error when the query fails.
C13_SingleAttempt ==
    /\ fetch.inits <= 1
    /\ fetch.runs <= 1
    /\ fetch.runs > 0 => (fetch.inits = 1 /\ fetch.initOk)
    /\ fetch.pc = "done" =>
         LET key == <<fetch.namespace, fetch.name>>
         IN  /\ fetch.inits = 1
             /\ ~fetch.initOk
                  => (fetch.runs = 0 /\ fetch.values = NilValues /\ fetch.err = ErrInit)
             /\ (fetch.initOk /\ key \in DOMAIN fetch.releases)
                  => (fetch.runs = 1 /\ fetch.values = fetch.releases[key] /\ fetch.err = nil)
             /\ (fetch.initOk /\ key \notin DOMAIN fetch.releases)
                  => /\ fetch.runs = 1
                     /\ fetch.values = NilValues
                     /\ fetch.err # nil
                     /\ fetch.err = fetch.runErr

\* the release asked for is not installed while another one is
C13_Witness ==
    /\ fetch.pc = "done"
    /\ fetch.initOk
    /\ <<fetch.namespace, fetch.name>> \notin DOMAIN fetch.releases
    /\ DOMAIN fetch.releases # {}
    /\ fetch.err = ErrReleaseNotFound
    /\ fetch.runs = 1

\* C14: when two calls of readChartFiles run in parallel on the same tree,
\* with the same or with different chartDirName, then under every
\* interleaving of their steps each returns what it returns when it runs
\* alone, and what a call has collected so far holds only files read for it.
C14_ParallelCallsIndependent ==
    /\ pc = "done" =>
         LET r == RunAlone(chart, chartDirName)
         IN  retFiles = r.files /\ retErr = r.err
    /\ other.pc = "done" =>
         LET r == RunAlone(chart, other.chartDirName)
         IN  other.retFiles = r.files /\ other.retErr = r.err
    /\ Len(chartFiles) <= Len(calls)
    /\ \A k \in 1..Len(chartFiles) :
         LET p == Join(<<chartDirName, chartFiles[k].Name>>)
         IN  /\ \E c \in 1..Len(calls) : calls[c] = Call("ReadFile", p)
             /\ chartFiles[k].Data = chart[p].data
    /\ \A k \in 1..Len(other.chartFiles) :
         LET p == Join(<<other.chartDirName, other.chartFiles[k].Name>>)
         IN  Kind(p) = "file" /\ other.chartFiles[k].Data = chart[p].data

\* both calls returned the same chart with a template, and the second call
\* was in the middle of its loops when the first returned
C14_Witness ==
    /\ Success
    /\ Len(retFiles) >= 3
    /\ other.pc = "templates"
    /\ other.chartDirName = chartDirName
    /\ Len(other.chartFiles) = 2

\* C15: every path passed to ReadFile or ReadDir of the tree, and every Name
\* produced, is spelled with forward slashes, whatever the separator of the
\* platform; so a chart the tree holds is found on every platform.
C15_SlashSeparatedPaths ==
    /\ \A k \in 1..Len(calls) : SlashSeparated(calls[k].path)
    /\ \A k \in 1..Len(chartFiles) : SlashSeparated(chartFiles[k].Name)
    /\ (pc = "done" /\ Kind(cpath) = "file") => retErr # PathError("open", cpath, ErrNotExist)


\* the namespace the install mode of case c gives to config entries
ExpectedNS(c) == IF c.mirrorK8S THEN KubeNS ELSE c.destinationNamespace

\* the kinds of config entry that are kept in the default namespace only
GlobalKinds ==
    {"proxy-defaults", "mesh", "jwt-provider", "exported-services",
     "control-plane-request-limit"}

C17_DeletePassesOnlyWhenAllAbsent ==
    test.phase = "passed" =>
       \A k \in 1..Len(CreateGets(test.c)) :
          NotFound(test.consul, CreateGets(test.c)[k])


\* C18: LoadChart calls the loader only once readChartFiles has returned
\* without error, and with exactly the sequence it returned; when
\* readChartFiles fails, LoadChart returns no chart and that same error, and
\* the loader is not called.
C18_LoaderOnlyAfterSuccess ==
    /\ ~load.returned => load.loaderArgs = <<>>
    /\ load.loaderArgs # <<>> =>
          /\ pc = "done"
          /\ retErr = nil
          /\ load.loaderArgs = <<retFiles>>
    /\ (load.returned /\ retErr = nil) => load.loaderArgs = <<retFiles>>
    /\ (load.returned /\ retErr # nil) =>
          /\ load.loaderArgs = <<>>
          /\ load.chart = "nil"
          /\ load.err = retErr

C18_Witness ==
    /\ load.returned
    /\ retErr = nil
    /\ load.loaderArgs = <<retFiles>>
    /\ Len(retFiles) > Len(requiredFiles)
    /\ load.chart = "chart"

====
